---- MODULE Spec2Model ----
(***************************************************************************)
(* The fetch-aggregate-cache orchestrator of github-trending-repos.         *)
(*                                                                         *)
(* Three deployment shapes of the trigger endpoint are modelled:           *)
(*   "server" : src/server.js, the socket.io broadcast server with an      *)
(*              in-memory cache (isCurrentlyFetching, cachedRepos,         *)
(*              lastUpdated);                                              *)
(*   "route"  : src/app/api/trending/route.ts, the polling endpoint with   *)
(*              a file-backed cache and a shared fetchPromise;             *)
(*   "session": src/unnamed/part_001:1-174, the socket.io server that      *)
(*              sends the events of a request's run to the socket          *)
(*              registered under the request's sessionId.                  *)
(* A behaviour picks one shape in Init; the other shapes' variables keep   *)
(* their initial values.                                                   *)
(***************************************************************************)
EXTENDS Integers, Sequences, FiniteSets, TLC

VARIABLES
    variant,              \* "server", "route" or "session"
    now,                  \* the clock, in ticks
    cachedRepos,          \* server.js:20, route.ts:24
    lastUpdated,          \* server.js:21, the instant of the last cache write
    isCurrentlyFetching,  \* server.js:22
    lastFetchedDate,      \* route.ts:25, a calendar date
    isFetching,           \* route.ts:26
    fetchPromise,         \* route.ts:27: "null", "fetching" or "saving"
    file,                 \* the cache file of route.ts:7
    results,              \* per language: the fetch promise of the current run
    run,                  \* the latest Aggregator run
    inProgress,           \* history: the number of Aggregator runs in progress
    lastRunDay,           \* history: the date on which the latest run started
    anyForce,             \* history: some request so far asked for a forced refresh
    pending,              \* route.ts: the GET invocations suspended at an await
    answers,              \* output: the responses sent by the latest step
    events,               \* io.emit broadcasts of the current run, in order
    conn,                 \* output: what the latest step sent to a connecting socket
    sockets,              \* part_001:27, the socket registered under each sessionId
    channels,             \* part_001: the socket objects: open or closed, and their sessionId
    handlers,             \* part_001: the GET invocations suspended in their loop
    emitted,              \* output: the socket.emit calls of the latest step
    html,                 \* server.js:157, the .Box-row elements of a fetched page
    repositories,         \* server.js:164-207, the promise of what fetchTrendingRepos extracts from html
    loading,              \* page.tsx:32
    pageSocket,           \* page.tsx:42, the socket of the page
    requests,             \* page.tsx:139, the GET requests of the page on their way
    retryCall             \* part_004:30, part_005:29: one call of fetchWithRetry

vars == <<variant, now, cachedRepos, lastUpdated, isCurrentlyFetching,
          lastFetchedDate, isFetching, fetchPromise, file, results, run,
          inProgress, lastRunDay, anyForce, pending, answers, events, conn,
          sockets, channels, handlers, emitted, html, repositories,
          loading, pageSocket, requests, retryCall>>

serverVars == <<cachedRepos, lastUpdated, isCurrentlyFetching>>
routeVars == <<lastFetchedDate, isFetching, fetchPromise, file>>
sessionVars == <<sockets, channels, handlers, emitted>>
fetcherVars == <<html, repositories>>
pageVars == <<loading, pageSocket, requests>>

-----------------------------------------------------------------------------
(* Bounds *)

MaxNow == 2
TicksPerDay == 2
MaxReq == 2
MaxRows == 1
MaxSock == 2
MaxItems == 3
MaxRetries == 5

-----------------------------------------------------------------------------
(* Values *)

null == -1

\* server.js:12-17, cut to the category of all languages and one language
serverLanguages == <<"", "go">>

\* route.ts:8-13, which has no category of all languages, cut to two
routeLanguages == <<"c", "go">>

\* part_001:14-19, the same list as route.ts, cut to two
sessionLanguages == <<"c", "go">>

languages ==
    CASE variant = "server" -> serverLanguages
      [] variant = "route" -> routeLanguages
      [] variant = "session" -> sessionLanguages

Langs == {languages[i] : i \in DOMAIN languages}

ServerLangs == {serverLanguages[i] : i \in DOMAIN serverLanguages}
RouteLangs == {routeLanguages[i] : i \in DOMAIN routeLanguages}

\* the calendar date of an instant
DateOf(t) == t \div TicksPerDay

\* new Date(lastUpdated).toDateString()
toDateString(t) == DateOf(t)

\* new Date().toDateString()
todayString == DateOf(now)

\* new Date().toISOString().split('T')[0]
getTodayDateString == DateOf(now)

\* the hrefs a trending page can list, in the order GitHub ranks them
Ranking == <<"/a/x", "/b/y">>

Paths == {Ranking[i] : i \in DOMAIN Ranking}

RankOf(path) == CHOOSE i \in DOMAIN Ranking : Ranking[i] = path

\* the pages a fetch can receive: the .Box-row hrefs, in page order
Pages ==
    {p \in UNION { [1..n -> Paths] : n \in 0..MaxRows } :
        \A i, j \in DOMAIN p : i < j => RankOf(p[i]) < RankOf(p[j])}

\* what axios.get yields: a network failure or a page
Responses == {[ok |-> FALSE, rows |-> <<>>]} \cup {[ok |-> TRUE, rows |-> p] : p \in Pages}

repoUrlOf(path) == <<"https://github.com", path>>

\* a fetcher that fails with something other than an empty sequence
fetchFailureRecord(language, response) ==
    IF ~response.ok
    THEN <<[language |-> language, repoUrl |-> "error"]>>
    ELSE [i \in DOMAIN response.rows |->
            [language |-> language, repoUrl |-> repoUrlOf(response.rows[i])]]

\* fetchTrendingRepos: one record per .Box-row; [] when the request throws
fetchTrendingRepos(language, response) ==
    IF ~response.ok
    THEN <<>>
    ELSE [i \in DOMAIN response.rows |->
            [language |-> language, repoUrl |-> repoUrlOf(response.rows[i])]]

Pending == [done |-> FALSE, repos |-> <<>>]
Settled(repos) == [done |-> TRUE, repos |-> repos]

NoResults == [l \in Langs |-> Settled(<<>>)]
AllPending == [l \in Langs |-> Pending]

\* a join that resolves with the first fetch that settles
AnyDone(res) == \E l \in Langs : res[l].done

\* Promise.all(fetchPromises) resolves when every fetch has settled
AllDone(res) == \A l \in Langs : res[l].done

RECURSIVE flatFrom(_, _)
flatFrom(res, i) ==
    IF i > Len(languages) THEN <<>>
    ELSE res[languages[i]].repos \o flatFrom(res, i + 1)

\* a merge that keeps the first category only
flatFirstOnly(res) == res[languages[1]].repos

\* allReposArray.flat(): Promise.all keeps the order of `languages`
flat(res) == flatFrom(res, 1)

\* self.findIndex((r) => r.repoUrl === repo.repoUrl)
findIndex(self, url) ==
    CHOOSE i \in DOMAIN self :
        /\ self[i].repoUrl = url
        /\ \A j \in DOMAIN self : self[j].repoUrl = url => i <= j

RECURSIVE filterFrom(_, _)
filterFrom(self, i) ==
    IF i > Len(self) THEN <<>>
    ELSE (IF i = findIndex(self, self[i].repoUrl) THEN <<self[i]>> ELSE <<>>)
         \o filterFrom(self, i + 1)

\* allRepos.filter((repo, index, self) => index === self.findIndex(...))
uniqueRepos(allRepos) == filterFrom(allRepos, 1)

-----------------------------------------------------------------------------
(* Bookkeeping *)

\* the cached records and their date, as one value
Cache(repos, stamp) == [repos |-> repos, stamp |-> stamp]

\* the latest run; `intact` says that no step of the run has changed the
\* cached records or their date, `lost` holds the categories whose request
\* threw inside fetchTrendingRepos
NoRun == [state |-> "none", today |-> null, forced |-> FALSE, merged |-> <<>>,
          intact |-> TRUE, lost |-> {}]

\* the run after the request of `language` has settled with `response`:
\* a request that throws is caught inside fetchTrendingRepos
Lose(r, language, response) ==
    [r EXCEPT !.lost = IF response.ok THEN @ ELSE @ \cup {language}]

\* a response: the status and the records sent
Answer(status, repos) == [status |-> status, repos |-> repos]

\* no cache file, or one that cannot be read or parsed
NoFile == [ok |-> FALSE, repos |-> <<>>, lastFetchedDate |-> null]

\* a GET invocation of route.ts suspended at `pc`; only one suspended in
\* loadCacheFromFile still reads its `today` (its forceFetch is false), and
\* `seen` is the cache file as it was when fs.readFile was called
Suspended(pc, today) ==
    [pc |-> pc, today |-> IF pc = "load" THEN today ELSE null,
     seen |-> IF pc = "load" THEN file ELSE NoFile]

Remove(seq, i) == [k \in 1..(Len(seq) - 1) |-> IF k < i THEN seq[k] ELSE seq[k + 1]]

Event(type, language, repos, stamp) ==
    [type |-> type, language |-> language, repos |-> repos, lastUpdated |-> stamp]

NoConn == [connected |-> FALSE, cachedData |-> FALSE, repos |-> <<>>, lastUpdated |-> null]

hist == <<inProgress, lastRunDay, anyForce>>

-----------------------------------------------------------------------------
(* src/server.js: the broadcast server *)

\* cacheIsValid without the `!forceRefresh` conjunct
cacheIsValidIgnoringForce(forceRefresh) ==
    /\ Len(cachedRepos) > 0
    /\ lastUpdated # null
    /\ toDateString(lastUpdated) = todayString

\* cacheIsValid with the date comparison inverted
cacheIsValidWrongDay(forceRefresh) ==
    /\ Len(cachedRepos) > 0
    /\ lastUpdated # null
    /\ toDateString(lastUpdated) # todayString
    /\ ~forceRefresh

\* server.js:56-59
cacheIsValid(forceRefresh) ==
    /\ Len(cachedRepos) > 0
    /\ lastUpdated # null
    /\ toDateString(lastUpdated) = todayString
    /\ ~forceRefresh

\* the in-progress check left out
alreadyFetchingNever == FALSE

\* server.js:72
alreadyFetching == isCurrentlyFetching

\* the cachedData emit without its guard
hasCachedDataAlways == TRUE

\* server.js:36, the guard of the cachedData emit
hasCachedData == Len(cachedRepos) > 0

\* the flag reset at the end of the try block instead of in `finally`
flagHeldOnThrow(threw) == threw

\* server.js:131-133: the value isCurrentlyFetching has after the try block
flagAfterRun(threw) == FALSE

\* io.on('connection'), server.js:32-47
onConnection ==
    /\ variant = "server"
    /\ conn' = IF hasCachedData
               THEN [connected |-> TRUE, cachedData |-> TRUE, repos |-> cachedRepos,
                     lastUpdated |-> lastUpdated]
               ELSE [connected |-> TRUE, cachedData |-> FALSE, repos |-> <<>>,
                     lastUpdated |-> null]
    /\ answers' = <<>>
    /\ UNCHANGED <<variant, retryCall, fetcherVars, sessionVars, now, serverVars, routeVars, results, run, hist, pending,
                   events>>

\* the cache cleared before the handler knows that a run starts
reposClearedOnReturn == <<>>

\* server.js:62-78: the records after a request that returns 'cached' or
\* 'in-progress'; `cachedRepos = []` (server.js:84) is not reached
reposOnReturn == cachedRepos

\* GET /api/trending up to the first await, server.js:50-111
getTrending(forceRefresh) ==
    /\ variant = "server"
    /\ anyForce' = (anyForce \/ forceRefresh)
    /\ IF cacheIsValid(forceRefresh)
       THEN /\ answers' = <<Answer("cached", <<>>)>>
            /\ cachedRepos' = reposOnReturn
            /\ UNCHANGED <<lastUpdated, isCurrentlyFetching, results, run,
                           inProgress, lastRunDay, events>>
       ELSE IF alreadyFetching
       THEN /\ answers' = <<Answer("in-progress", <<>>)>>
            /\ cachedRepos' = reposOnReturn
            /\ UNCHANGED <<lastUpdated, isCurrentlyFetching, results, run,
                           inProgress, lastRunDay, events>>
       ELSE /\ isCurrentlyFetching' = TRUE
            /\ cachedRepos' = <<>>
            /\ answers' = <<Answer("started", <<>>)>>
            /\ events' = <<Event("progress:start", "", <<>>, null)>>
            /\ results' = AllPending
            /\ run' = [state |-> "fetching", today |-> todayString,
                     forced |-> forceRefresh, merged |-> <<>>,
                     intact |-> Cache(<<>>, lastUpdated) =
                                Cache(cachedRepos, lastUpdated),
                     lost |-> {}]
            /\ inProgress' = inProgress + 1
            /\ lastRunDay' = DateOf(now)
            /\ UNCHANGED lastUpdated
    /\ conn' = NoConn
    /\ UNCHANGED <<variant, retryCall, fetcherVars, sessionVars, now, routeVars, pending>>

\* the completion events emitted without waiting for the fetches
emitCompletionEarly(evs, repos, stamp) ==
    <<evs[1], Event("reposUpdate", "", repos, stamp), Event("completed", "", <<>>, stamp)>>
    \o SubSeq(evs, 2, Len(evs))

\* server.js:125-126: the events of a run that completes, after those emitted
\* so far
emitCompletion(evs, repos, stamp) ==
    evs \o <<Event("reposUpdate", "", repos, stamp), Event("completed", "", <<>>, stamp)>>

\* the continuation after `await Promise.all(fetchPromises)`, server.js:111-133
ServerFanIn(res, evs, threw, r) ==
    LET allRepos == flat(res)
        unique   == uniqueRepos(allRepos)
    IN  /\ IF threw
           THEN /\ events' = Append(evs, Event("error", "", <<>>, null))
                /\ run' = [r EXCEPT !.state = "failed"]
                /\ UNCHANGED <<cachedRepos, lastUpdated>>
           ELSE /\ cachedRepos' = unique
                /\ lastUpdated' = now
                /\ events' = emitCompletion(evs, unique, now)
                /\ run' = [r EXCEPT !.state = "completed",
                                   !.intact = r.intact /\ Cache(unique, now) =
                                              Cache(cachedRepos, lastUpdated)]
        /\ isCurrentlyFetching' = flagAfterRun(threw)
        /\ inProgress' = inProgress - 1

\* one fetchTrendingRepos settles and its map callback runs, server.js:97-108;
\* when it is the last one, Promise.all resolves and the handler continues
fetchSettles(language, response, threw) ==
    /\ variant = "server"
    /\ inProgress > 0
    /\ ~results[language].done
    /\ LET repos == fetchTrendingRepos(language, response)
           res   == [results EXCEPT ![language] = Settled(repos)]
           evs   == events \o <<Event("languageData", language, repos, null),
                                Event("progress:success", language, <<>>, null)>>
           r     == Lose(run, language, response)
       IN  /\ results' = res
           /\ IF AllDone(res)
              THEN ServerFanIn(res, evs, threw, r)
              ELSE /\ ~threw
                   /\ events' = evs
                   /\ run' = r
                   /\ UNCHANGED <<serverVars, inProgress>>
    /\ answers' = <<>>
    /\ conn' = NoConn
    /\ UNCHANGED <<variant, retryCall, fetcherVars, sessionVars, now, routeVars, lastRunDay, anyForce, pending>>

\* the handlers of server.js driven by clients other than the page
Connect == onConnection /\ UNCHANGED pageVars

ServerRequest(forceRefresh) == getTrending(forceRefresh) /\ UNCHANGED pageVars

ServerFetchReturns(language, response, threw) ==
    fetchSettles(language, response, threw) /\ UNCHANGED pageVars

-----------------------------------------------------------------------------
(* src/app/api/trending/route.ts: the polling endpoint with a cache file *)

\* a cache file left by an earlier process
OldFile == [ok |-> TRUE,
            repos |-> fetchTrendingRepos("go", [ok |-> TRUE, rows |-> <<"/a/x">>]),
            lastFetchedDate |-> 0]

\* the cache check without the `!forceFetch` conjunct
routeCacheHitIgnoringForce(forceFetch, today, date, repos) ==
    date = today /\ Len(repos) > 0

\* the cache check with the date comparison inverted
routeCacheHitWrongDay(forceFetch, today, date, repos) ==
    ~forceFetch /\ date # today /\ Len(repos) > 0

\* route.ts:125
routeCacheHit(forceFetch, today, date, repos) ==
    ~forceFetch /\ date = today /\ Len(repos) > 0

\* route.ts:131
routeFetchOngoing == isFetching /\ fetchPromise # "null"

\* route.ts:156-159: the value isFetching has once the chain has settled
isFetchingAfterRun(failed) == FALSE

\* GET from the cache check on, route.ts:124-162, for a request with the given
\* flag and date; others are the other suspended invocations; repos and date
\* are the values of cachedRepos and lastFetchedDate when the check is reached
RouteCheck(forceFetch, today, others, repos, date) ==
    /\ cachedRepos' = repos
    /\ lastFetchedDate' = date
    /\ IF routeCacheHit(forceFetch, today, date, repos)
       THEN /\ answers' = <<Answer("ok", repos)>>
            /\ pending' = others
            /\ UNCHANGED <<isFetching, fetchPromise, results, run, inProgress, lastRunDay>>
       ELSE IF routeFetchOngoing
       THEN /\ pending' = Append(others, Suspended("wait", today))
            /\ answers' = <<>>
            /\ UNCHANGED <<isFetching, fetchPromise, results, run, inProgress, lastRunDay>>
       ELSE /\ isFetching' = TRUE
            /\ fetchPromise' = "fetching"
            /\ results' = AllPending
            /\ run' = [state |-> "fetching", today |-> today,
                     forced |-> forceFetch, merged |-> <<>>,
                     intact |-> TRUE, lost |-> {}]
            /\ inProgress' = inProgress + 1
            /\ lastRunDay' = DateOf(now)
            /\ pending' = Append(others, Suspended("own", today))
            /\ answers' = <<>>

\* GET, route.ts:110-122: a request arrives
RouteRequest(forceFetch) ==
    /\ variant = "route"
    /\ Len(pending) < MaxReq
    /\ anyForce' = (anyForce \/ forceFetch)
    /\ LET today == getTodayDateString IN
       IF ~forceFetch /\ lastFetchedDate = null
       THEN /\ pending' = Append(pending, Suspended("load", today))
            /\ answers' = <<>>
            /\ UNCHANGED <<cachedRepos, lastFetchedDate, isFetching, fetchPromise,
                           results, run, inProgress, lastRunDay>>
       ELSE RouteCheck(forceFetch, today, pending, cachedRepos, lastFetchedDate)
    /\ UNCHANGED <<variant, retryCall, fetcherVars, pageVars, sessionVars, now, lastUpdated, isCurrentlyFetching, file, events, conn>>

\* loadCacheFromFile settles and GET continues, route.ts:36-45 and 117-162.
\* fs.readFile runs beside the chain of a run that writes the file: it
\* delivers the file as it was when the read was issued or as it is now
RouteLoadReturns(i, readOk) ==
    /\ variant = "route"
    /\ i \in DOMAIN pending
    /\ pending[i].pc = "load"
    /\ \E cachedData \in (IF readOk THEN {pending[i].seen, file} ELSE {NoFile}) :
         LET others == Remove(pending, i)
         IN  IF cachedData.ok
             THEN RouteCheck(FALSE, pending[i].today, others,
                             cachedData.repos, cachedData.lastFetchedDate)
             ELSE RouteCheck(FALSE, pending[i].today, others,
                             cachedRepos, lastFetchedDate)
    /\ UNCHANGED <<variant, retryCall, fetcherVars, pageVars, sessionVars, now, lastUpdated, isCurrentlyFetching, file, anyForce,
                   events, conn>>

\* one fetchTrendingRepos settles; when it is the last one Promise.all
\* resolves, the first two .then callbacks run and saveCacheToFile starts,
\* route.ts:141-148
RouteFetchReturns(language, response) ==
    /\ variant = "route"
    /\ fetchPromise = "fetching"
    /\ ~results[language].done
    /\ LET repos == fetchTrendingRepos(language, response)
           res   == [results EXCEPT ![language] = Settled(repos)]
           r     == Lose(run, language, response)
       IN  /\ results' = res
           /\ IF AllDone(res)
              THEN /\ cachedRepos' = flat(res)
                   /\ lastFetchedDate' = run.today
                   /\ fetchPromise' = "saving"
                   /\ run' = [r EXCEPT !.state = "saving", !.merged = flat(res),
                                      !.intact = r.intact /\ Cache(flat(res), run.today) =
                                                 Cache(cachedRepos, lastFetchedDate)]
              ELSE /\ run' = r
                   /\ UNCHANGED <<cachedRepos, lastFetchedDate, fetchPromise>>
    /\ answers' = <<>>
    /\ UNCHANGED <<variant, retryCall, fetcherVars, pageVars, sessionVars, now, lastUpdated, isCurrentlyFetching, isFetching, file,
                   hist, pending, events, conn>>

\* the response of a request that awaits fetchPromise, route.ts:133-134 and
\* 162-169; finalRepos is the value the chain resolved to
RouteAnswer(r, finalRepos) ==
    IF r.pc = "wait"
    THEN Answer("ok", cachedRepos)
    ELSE IF Len(finalRepos) = 0
         THEN Answer("error", <<>>)
         ELSE Answer("ok", finalRepos)

Awaiting(r) == r.pc \in {"wait", "own"}
Loading(r) == r.pc = "load"

\* saveCacheToFile settles: the chain's .catch and .finally run and every
\* request awaiting fetchPromise answers, route.ts:147-169
RouteSaveReturns(writeOk) ==
    /\ variant = "route"
    /\ fetchPromise = "saving"
    /\ LET finalRepos == IF writeOk THEN run.merged ELSE <<>>
           awaiting   == SelectSeq(pending, Awaiting)
       IN
       /\ file' = IF writeOk
                  THEN [ok |-> TRUE, repos |-> run.merged, lastFetchedDate |-> run.today]
                  ELSE file
       /\ run' = [run EXCEPT !.state = IF writeOk THEN "completed" ELSE "failed",
                              !.merged = <<>>]
       /\ answers' = [k \in DOMAIN awaiting |-> RouteAnswer(awaiting[k], finalRepos)]
       /\ pending' = SelectSeq(pending, Loading)
    /\ isFetching' = isFetchingAfterRun(~writeOk)
    /\ fetchPromise' = "null"
    /\ inProgress' = inProgress - 1
    /\ UNCHANGED <<variant, retryCall, fetcherVars, pageVars, sessionVars, now, cachedRepos, lastUpdated, isCurrentlyFetching,
                   lastFetchedDate, results, lastRunDay, anyForce, events, conn>>

-----------------------------------------------------------------------------
(* src/unnamed/part_001:1-174: the session server *)

\* the sessionId values of the clients
Tokens == {"s1", "s2"}

\* no sessionId in the query
NoToken == "none"

\* the socket objects
SockIds == 1..MaxSock

\* sockets[sessionId] is undefined
NoSocket == 0

\* a socket object that does not exist or is disconnected; nothing reads the
\* sessionId of a disconnected socket
NoChannel == [open |-> FALSE, sessionId |-> NoToken]

\* one socket.emit call: the socket, the event, and whether the socket is
\* still connected to receive it
Emit(id, event) == [to |-> id, event |-> event, delivered |-> channels[id].open]

\* a GET invocation suspended at `await fetchTrendingRepos(languages[k])`
Handler(id, sessionId, k) == [socket |-> id, sessionId |-> sessionId, k |-> k]

\* a socket object is free for a new connection when it is closed and
\* neither the registry nor a handler refers to it
Free(id) ==
    /\ ~channels[id].open
    /\ \A t \in Tokens : sockets[t] # id
    /\ \A i \in DOMAIN handlers : handlers[i].socket # id

\* what axios.get yields in the session server: a network failure or a page
\* with one row; the server passes the records on and keeps none
SessionResponses == {r \in Responses : r.rows \in {<<>>, <<Ranking[1]>>}}

\* the 'disconnect' listener, part_001:43-48
onDisconnect(id, registry) ==
    IF channels[id].sessionId # NoToken
    THEN [registry EXCEPT ![channels[id].sessionId] = NoSocket]
    ELSE registry

\* part_001:96-99: whether the socket is still connected after the catch block
openAfterError(id) == channels[id].open

\* io.on('connection'), part_001:29-41
SessionConnect(sessionId) ==
    /\ variant = "session"
    /\ \E id \in SockIds :
         /\ Free(id)
         /\ \A other \in SockIds : Free(other) => id <= other
         /\ channels' = [channels EXCEPT ![id] = [open |-> TRUE, sessionId |-> sessionId]]
         /\ sockets' = IF sessionId # NoToken
                       THEN [sockets EXCEPT ![sessionId] = id]
                       ELSE sockets
    /\ emitted' = <<>>
    /\ answers' = <<>>
    /\ UNCHANGED <<variant, retryCall, fetcherVars, pageVars, now, serverVars, routeVars, results, run, hist, pending,
                   events, conn, handlers>>

\* the client closes its connection and the 'disconnect' listener runs
SessionDisconnect(id) ==
    /\ variant = "session"
    /\ channels[id].open
    /\ channels' = [channels EXCEPT ![id] = NoChannel]
    /\ sockets' = onDisconnect(id, sockets)
    /\ emitted' = <<>>
    /\ answers' = <<>>
    /\ UNCHANGED <<variant, retryCall, fetcherVars, pageVars, now, serverVars, routeVars, results, run, hist, pending,
                   events, conn, handlers>>

\* GET /api/trending up to its first await, part_001:52-75
SessionRequest(sessionId) ==
    /\ variant = "session"
    /\ Len(handlers) < MaxReq
    /\ IF sessionId = NoToken \/ sockets[sessionId] = NoSocket
       THEN /\ answers' = <<Answer("bad-request", <<>>)>>
            /\ emitted' = <<>>
            /\ UNCHANGED handlers
       ELSE LET id == sockets[sessionId] IN
            /\ answers' = <<Answer("started", <<>>)>>
            /\ emitted' = <<Emit(id, Event("progress:fetching", languages[1], <<>>, null))>>
            /\ handlers' = Append(handlers, Handler(id, sessionId, 1))
    /\ UNCHANGED <<variant, retryCall, fetcherVars, pageVars, now, serverVars, routeVars, results, run, hist, pending,
                   events, conn, sockets, channels>>

\* fetchTrendingRepos settles in the loop of one invocation, part_001:75-99:
\* the events of the language, then the next iteration, or the completed
\* event and socket.disconnect(), or the catch block when the code threw
SessionFetchReturns(i, response, threw) ==
    /\ variant = "session"
    /\ i \in DOMAIN handlers
    /\ LET h     == handlers[i]
           id    == h.socket
           l     == languages[h.k]
           repos == fetchTrendingRepos(l, response)
           data  == <<Emit(id, Event("languageData", l, repos, null)),
                      Emit(id, Event("progress:success", l, <<>>, null))>>
       IN  IF threw
           THEN /\ emitted' = Append(data, Emit(id, Event("error", "", <<>>, null)))
                /\ handlers' = Remove(handlers, i)
                /\ channels' = [channels EXCEPT ![id] = IF openAfterError(id) THEN @ ELSE NoChannel]
                /\ sockets' = IF channels[id].open /\ ~openAfterError(id)
                              THEN onDisconnect(id, sockets)
                              ELSE sockets
           ELSE IF h.k < Len(languages)
           THEN /\ emitted' = Append(data, Emit(id, Event("progress:fetching",
                                                          languages[h.k + 1], <<>>, null)))
                /\ handlers' = [handlers EXCEPT ![i].k = h.k + 1]
                /\ UNCHANGED <<sockets, channels>>
           ELSE /\ emitted' = Append(data, Emit(id, Event("completed", "", <<>>, null)))
                /\ handlers' = Remove(handlers, i)
                /\ channels' = [channels EXCEPT ![id] = NoChannel]
                /\ sockets' = IF channels[id].open THEN onDisconnect(id, sockets)
                              ELSE sockets
    /\ answers' = <<>>
    /\ UNCHANGED <<variant, retryCall, fetcherVars, pageVars, now, serverVars, routeVars, results, run, hist, pending,
                   events, conn>>

-----------------------------------------------------------------------------

\* time passes; the session server never reads the clock
Tick ==
    /\ variant \in {"server", "route"}
    /\ now < MaxNow
    /\ now' = now + 1
    /\ answers' = <<>>
    /\ conn' = NoConn
    /\ UNCHANGED <<variant, retryCall, fetcherVars, pageVars, sessionVars, serverVars, routeVars, results, run, hist, pending, events>>

\* fetchWithRetry has not been called
NoCall == [impl |-> "none", url |-> "", retries |-> 0, i |-> 0, sent |-> 0,
           pc |-> "none", result |-> "none"]

\* the module state of the servers when the process has started
Constructed ==
    /\ now = 0
    /\ cachedRepos = <<>>
    /\ lastUpdated = null
    /\ isCurrentlyFetching = FALSE
    /\ lastFetchedDate = null
    /\ isFetching = FALSE
    /\ fetchPromise = "null"
    /\ file \in (IF variant = "route" THEN {NoFile, OldFile} ELSE {NoFile})
    /\ results = NoResults
    /\ run = NoRun
    /\ inProgress = 0
    /\ lastRunDay = null
    /\ anyForce = FALSE
    /\ pending = <<>>
    /\ answers = <<>>
    /\ events = <<>>
    /\ conn = NoConn
    /\ sockets = [t \in Tokens |-> NoSocket]
    /\ channels = [id \in SockIds |-> NoChannel]
    /\ handlers = <<>>
    /\ emitted = <<>>
    /\ loading = FALSE
    /\ pageSocket = "none"
    /\ requests = <<>>

Init ==
    /\ variant \in {"server", "route", "session"}
    /\ Constructed
    /\ html = <<>>
    /\ repositories = Pending
    /\ retryCall = NoCall

Next ==
    \/ \E f \in BOOLEAN : ServerRequest(f)
    \/ \E l \in ServerLangs, rsp \in Responses, t \in BOOLEAN :
           ServerFetchReturns(l, rsp, t)
    \/ Connect
    \/ \E f \in BOOLEAN : RouteRequest(f)
    \/ \E i \in 1..MaxReq, ok \in BOOLEAN : RouteLoadReturns(i, ok)
    \/ \E l \in RouteLangs, rsp \in Responses : RouteFetchReturns(l, rsp)
    \/ \E ok \in BOOLEAN : RouteSaveReturns(ok)
    \/ \E sessionId \in Tokens \cup {NoToken} : SessionConnect(sessionId)
    \/ \E id \in SockIds : SessionDisconnect(id)
    \/ \E sessionId \in Tokens \cup {NoToken} : SessionRequest(sessionId)
    \/ \E i \in 1..MaxReq, rsp \in SessionResponses, t \in BOOLEAN :
           SessionFetchReturns(i, rsp, t)
    \/ Tick

Spec == Init /\ [][Next]_vars

\* every category fetch eventually returns and every file write settles
Fairness ==
    /\ \A l \in ServerLangs :
         WF_vars(\E rsp \in Responses, t \in BOOLEAN : ServerFetchReturns(l, rsp, t))
    /\ \A l \in RouteLangs : WF_vars(\E rsp \in Responses : RouteFetchReturns(l, rsp))
    /\ WF_vars(\E ok \in BOOLEAN : RouteSaveReturns(ok))

FairSpec == Spec /\ Fairness

-----------------------------------------------------------------------------
(* fetchTrendingRepos on its own, server.js:149-212 and route.ts:47-106 *)

\* a .Box-row whose `h2 a` has no href: attr('href') is undefined and
\* repoPath becomes ''
NoHref == ""

\* the pages axios.get can deliver: up to MaxItems rows, each with the href
\* of a repository or without one
Htmls == UNION { [1..n -> Paths \cup {NoHref}] : n \in 0..MaxItems }

\* the fetcher is about to run on a page
FetcherInit ==
    /\ variant \in {"server", "route"}
    /\ Constructed
    /\ html \in Htmls
    /\ repositories = Pending
    /\ retryCall = NoCall

\* the .each loop over the rows and `return repositories`
Extract(language) ==
    /\ repositories = Pending
    /\ language \in Langs
    /\ repositories' = Settled(fetchTrendingRepos(language, [ok |-> TRUE, rows |-> html]))
    /\ UNCHANGED <<variant, retryCall, pageVars, now, serverVars, routeVars, sessionVars, results,
                   run, hist, pending, answers, events, conn, html>>

FetcherNext == \E l \in ServerLangs \cup RouteLangs : Extract(l)

FetcherSpec == FetcherInit /\ [][FetcherNext]_vars

-----------------------------------------------------------------------------
(* src/app/page.tsx: the page, as the client of server.js *)

\* the query string of fetchRepos(forceFetch), page.tsx:139; the page sets no
\* forceRefresh parameter
Query(forceFetch) ==
    [forceFetch |-> IF forceFetch THEN "true" ELSE "false", forceRefresh |-> "undefined"]

\* server.js:52
forceRefreshOf(query) == query.forceRefresh = "true"

\* what a step of the page leaves alone on the server
ServerIdle ==
    /\ answers' = <<>>
    /\ conn' = NoConn
    /\ UNCHANGED <<variant, retryCall, fetcherVars, sessionVars, now, serverVars, routeVars, results,
                   run, hist, pending, events>>

\* the two mount effects, page.tsx:40-47 and 128-130: io('/') and fetchRepos()
PageMount ==
    /\ pageSocket = "none"
    /\ pageSocket' = "connecting"
    /\ loading' = TRUE
    /\ requests' = Append(requests, Query(FALSE))
    /\ ServerIdle

\* the Force Fetch button, page.tsx:201-205 and 132-139
PageForceFetch ==
    /\ pageSocket # "none"
    /\ Len(requests) < MaxReq
    /\ loading' = TRUE
    /\ requests' = Append(requests, Query(TRUE))
    /\ UNCHANGED pageSocket
    /\ ServerIdle

\* the socket of the page reaches the server; the page handles cachedData,
\* page.tsx:97-102
PageConnect ==
    /\ pageSocket = "connecting"
    /\ onConnection
    /\ IF conn'.cachedData
       THEN loading' = FALSE /\ pageSocket' = "disconnected"
       ELSE pageSocket' = "connected" /\ UNCHANGED loading
    /\ UNCHANGED requests

\* a GET of the page reaches the server; the page only logs the response,
\* page.tsx:140-142
PageRequestArrives(i) ==
    /\ i \in DOMAIN requests
    /\ getTrending(forceRefreshOf(requests[i]))
    /\ requests' = Remove(requests, i)
    /\ UNCHANGED <<loading, pageSocket>>

\* a fetch of the run settles; the page handles completed and error when its
\* socket is connected, page.tsx:104-116
PageFetchSettles(language, response, threw) ==
    /\ fetchSettles(language, response, threw)
    /\ IF pageSocket = "connected" /\ run'.state \in {"completed", "failed"}
       THEN loading' = FALSE /\ pageSocket' = "disconnected"
       ELSE UNCHANGED <<loading, pageSocket>>
    /\ UNCHANGED requests

PageInit ==
    /\ variant = "server"
    /\ Constructed
    /\ html = <<>>
    /\ repositories = Pending
    /\ retryCall = NoCall

PageNext ==
    \/ PageMount
    \/ PageForceFetch
    \/ PageConnect
    \/ \E i \in 1..MaxReq : PageRequestArrives(i)
    \/ \E l \in ServerLangs, rsp \in Responses, t \in BOOLEAN : PageFetchSettles(l, rsp, t)

PageSpec == PageInit /\ [][PageNext]_vars

\* the connection and every GET reach the server, and every fetch settles
PageFairness ==
    /\ WF_vars(PageConnect)
    /\ WF_vars(\E i \in 1..MaxReq : PageRequestArrives(i))
    /\ \A l \in ServerLangs :
         WF_vars(\E rsp \in Responses, t \in BOOLEAN : PageFetchSettles(l, rsp, t))

PageFairSpec == PageSpec /\ PageFairness

-----------------------------------------------------------------------------
(* fetchWithRetry of the polling pages: the loop of src/unnamed/part_004:30-44 *)
(* and the recursion of src/unnamed/part_005:29-41                          *)

\* the urls fetchRepos passes, part_004:50 and part_005:47
RetryUrls == {"/api/trending?forceFetch=false", "/api/trending?forceFetch=true"}

\* a call that has sent its first axios.get; `i` counts the requests that
\* have failed and been retried: the loop variable of part_004, and the
\* difference between the first and the current `retries` in part_005
Call(impl, url, retries) ==
    [impl |-> impl, url |-> url, retries |-> retries, i |-> 0, sent |-> 1,
     pc |-> "get", result |-> "none"]

\* a retry test that never gives up
mayRetryAlways(c) == TRUE

\* part_004:36 `i < retries`; part_005:34 `retries > 0` on the current value
mayRetry(c) ==
    IF c.impl = "loop" THEN c.i < c.retries ELSE c.retries - c.i > 0

\* part_004:31, the loop condition after i++; the recursion has none
loopContinues(c) == c.impl = "recursive" \/ c.i <= c.retries

\* what a step of the polling page leaves alone
OnlyRetry ==
    UNCHANGED <<variant, fetcherVars, pageVars, sessionVars, now, serverVars, routeVars,
                results, run, hist, pending, answers, events, conn>>

\* axios.get settles: return response.data, or the catch block
GetSettles(ok) ==
    /\ retryCall.pc = "get"
    /\ retryCall' =
         IF ok THEN [retryCall EXCEPT !.pc = "returned", !.result = "data"]
         ELSE IF mayRetry(retryCall) THEN [retryCall EXCEPT !.pc = "delay"]
         ELSE [retryCall EXCEPT !.pc = "threw", !.result = "error"]
    /\ OnlyRetry

\* the setTimeout promise resolves: the next iteration, or the recursive call
DelayElapses ==
    /\ retryCall.pc = "delay"
    /\ retryCall.sent <= MaxRetries + 1
    /\ LET c == [retryCall EXCEPT !.i = @ + 1] IN
       retryCall' =
         IF loopContinues(c)
         THEN [c EXCEPT !.pc = "get", !.sent = @ + 1]
         ELSE [c EXCEPT !.pc = "returned", !.result = "undefined"]
    /\ OnlyRetry

RetryInit ==
    /\ variant = "route"
    /\ Constructed
    /\ file = NoFile
    /\ html = <<>>
    /\ repositories = Pending
    /\ retryCall \in {Call(impl, url, n) : impl \in {"loop", "recursive"},
                                           url \in RetryUrls, n \in 0..MaxRetries}

RetryNext == (\E ok \in BOOLEAN : GetSettles(ok)) \/ DelayElapses

RetrySpec == RetryInit /\ [][RetryNext]_vars

\* every request settles and every timer fires
RetryFairSpec ==
    RetrySpec /\ WF_vars(\E ok \in BOOLEAN : GetSettles(ok)) /\ WF_vars(DelayElapses)

-----------------------------------------------------------------------------
(* Properties *)

\* the steps of a refresh request's arrival
Request(force) == ServerRequest(force) \/ RouteRequest(force)

\* a run starts in this step
RunStarts == inProgress' = inProgress + 1

\* the in-memory cache holds records dated today
FreshCache ==
    IF variant = "server"
    THEN Len(cachedRepos) > 0 /\ lastUpdated # null /\ DateOf(lastUpdated) = DateOf(now)
    ELSE Len(cachedRepos) > 0 /\ lastFetchedDate = DateOf(now)

\* the in-memory cache carries a date earlier than today
StaleCache ==
    IF variant = "server"
    THEN lastUpdated # null /\ DateOf(lastUpdated) < DateOf(now)
    ELSE lastFetchedDate # null /\ lastFetchedDate < DateOf(now)

\* the request of this step was not answered from the cache: the server said
\* started or in-progress, the route handler suspended on fetchPromise
NotFromCache ==
    IF variant = "server"
    THEN Len(answers') = 1 /\ answers'[1].status \in {"started", "in-progress"}
    ELSE /\ answers' = <<>>
         /\ \E k \in DOMAIN pending' : pending'[k].pc \in {"wait", "own"}

LastEvent == events[Len(events)]

\* C1: in every reachable state at most one Aggregator run is in progress.
C1_AtMostOneRun == inProgress <= 1

\* during a run whose first fetch has returned, a forced request has just
\* been told that fetching is in progress
C1_Witness ==
    /\ variant = "server"
    /\ inProgress = 1
    /\ anyForce
    /\ \E l \in Langs : results[l].done
    /\ answers = <<Answer("in-progress", <<>>)>>

\* C2: two refresh requests issued before either completes cause exactly one
\* Aggregator run (a request that arrives, or resumes, during a run starts
\* none), and the requests that await the same run receive the same final
\* result.
C2_SingleFlightSameResult ==
    [][ /\ ( /\ inProgress = 1
             /\ \/ \E f \in BOOLEAN : Request(f)
                \/ \E i \in 1..MaxReq, ok \in BOOLEAN : RouteLoadReturns(i, ok) )
           => inProgress' = 1
        /\ (\E ok \in BOOLEAN : RouteSaveReturns(ok))
           => \A a, b \in DOMAIN answers' : answers'[a] = answers'[b] ]_vars

\* C3: while no request has set forceRefresh, at most one Aggregator run
\* starts per calendar day.
C3_OneRunPerDay ==
    [][ (RunStarts /\ ~anyForce') => lastRunDay # DateOf(now) ]_vars

\* C4: a forced refresh request is never answered from the cache; it starts a
\* new run, whether or not the cache is valid, unless a run is already in
\* flight, which it then joins.
C4_ForceBypass ==
    [][ Request(TRUE)
        => /\ NotFromCache
           /\ inProgress' = 1
           /\ inProgress = 0
              => (run'.state = "fetching" /\ run'.forced /\ results' = AllPending) ]_vars

\* a forced request has started a run while the cache holds today's records
C4_Witness ==
    /\ variant = "route"
    /\ FreshCache
    /\ fetchPromise = "fetching"
    /\ run.forced
    /\ run.today = lastFetchedDate
    /\ pending = <<Suspended("own", null)>>

\* C5: a non-forced request that finds a cached result dated on an earlier
\* calendar day, in memory on arrival or in the cache file it loads, is not
\* answered from the cache: it starts or joins a run.
C5_StaleNotServed ==
    [][ /\ (Request(FALSE) /\ StaleCache)
           => (NotFromCache /\ inProgress' = 1)
        /\ \A i \in 1..MaxReq :
             ( /\ \E ok \in BOOLEAN : RouteLoadReturns(i, ok)
               /\ lastFetchedDate' # null
               /\ lastFetchedDate' < pending[i].today )
             => (NotFromCache /\ inProgress' = 1) ]_vars

\* a non-forced request has started a run although the cache holds records:
\* they are dated on an earlier day
C5_Witness ==
    /\ variant = "route"
    /\ Len(cachedRepos) > 0
    /\ lastFetchedDate # null
    /\ lastFetchedDate < run.today
    /\ fetchPromise = "fetching"
    /\ ~run.forced
    /\ pending = <<Suspended("own", null)>>

\* C6: the cache is valid for a non-forced request if and only if a cached
\* result exists (none before the first run; the one written by the latest
\* completed run, also when that run's set is empty) and its generatedAt is
\* today's date.
C6_ValidIffExistsToday ==
    (variant = "server" /\ run.state \in {"none", "completed"})
    => ( cacheIsValid(FALSE)
         <=> (run.state = "completed" /\ toDateString(lastUpdated) = todayString) )

\* C7: while no run has completed since process start, no request is answered
\* with status cached and no connecting observer is sent a cachedData event.
C7_EmptyStoreInvalid ==
    (variant = "server" /\ lastUpdated = null)
    => /\ \A a \in DOMAIN answers : answers[a].status # "cached"
       /\ ~conn.cachedData

\* on the second day, after a run that failed, a socket connects to the
\* still empty store
C7_Witness ==
    /\ variant = "server"
    /\ lastUpdated = null
    /\ DateOf(now) > 0
    /\ run.state = "failed"
    /\ conn.connected

C9_FailureReleasesLock ==
    [][ run'.state = "failed"
        => /\ ~isCurrentlyFetching'
           /\ ~isFetching'
           /\ fetchPromise' = "null"
           /\ inProgress' = 0
           /\ (variant = "server" /\ run.state # "failed")
              => events'[Len(events')].type = "error"
           /\ (variant = "route" /\ run.state # "failed")
              => \E a \in DOMAIN answers' : answers'[a].status = "error" ]_vars

\* a run threw after all its fetches had returned, some with records
C9_Witness ==
    /\ variant = "server"
    /\ run.state = "failed"
    /\ AllDone(results)
    /\ \E l \in Langs : Len(results[l].repos) > 0
    /\ LastEvent.type = "error"

\* C10: every run that enters FETCHING eventually returns to IDLE with the
\* lock clear, provided every category fetch returns.
C10_LockEventuallyReleased ==
    (isCurrentlyFetching \/ isFetching \/ inProgress > 0)
    ~> (~isCurrentlyFetching /\ ~isFetching /\ inProgress = 0)

\* a run has completed and the lock is clear
C10_Witness ==
    /\ run.state = "completed"
    /\ ~isCurrentlyFetching
    /\ ~isFetching
    /\ inProgress = 0
    /\ events # <<>>
    /\ LastEvent.type = "completed"

\* a GET invocation of route.ts resumes from loadCacheFromFile in this step
LoadReturns == \E i \in 1..MaxReq, ok \in BOOLEAN : RouteLoadReturns(i, ok)

\* C11: while a run is fetching, from the step that starts it up to the step
\* in which its merged set is ready, no step of the run changes the cached
\* records or their date: the previous set stays readable.
C11_AtomicReplacement ==
    [][ (run'.state = "fetching" /\ ~LoadReturns)
        => UNCHANGED <<cachedRepos, lastUpdated, lastFetchedDate>> ]_vars

\* the step in which a run ends in failure
RunFails == run.state \in {"fetching", "saving"} /\ run'.state = "failed"

\* C12: a run that fails leaves the cached records and their date exactly as
\* they were when that run started: no step of the run, up to and including
\* the one in which it fails, has changed them.
C12_FailedRunKeepsCache ==
    [][ RunFails
        => /\ run'.intact
           /\ UNCHANGED <<cachedRepos, lastUpdated, lastFetchedDate>> ]_vars

\* the records and the date that the latest run of server.js broadcast
\* together on completion were sent as this pair
Broadcast(evs, pair) ==
    \E k \in DOMAIN evs :
        /\ evs[k].type = "reposUpdate"
        /\ Cache(evs[k].repos, evs[k].lastUpdated) = pair

\* C13: no reader observes records of one run paired with the date of
\* another. server.js: what a connecting socket is sent, and what a cached
\* answer refers to, is the pair that one run set and broadcast together.
\* route.ts: every step that changes the cached records or their date takes
\* both from one source, the cache file as a read delivered it or the run
\* that is completing; a read delivers the file as it is or as it was when
\* the read was issued, and the file is only ever written with the records
\* and the date of one run.
C13_NoMixedPair ==
    [][ /\ conn'.cachedData
           => Broadcast(events', Cache(conn'.repos, conn'.lastUpdated))
        /\ (\E a \in DOMAIN answers' : answers'[a].status = "cached")
           => Broadcast(events', Cache(cachedRepos', lastUpdated'))
        /\ ( /\ variant = "route"
             /\ Cache(cachedRepos', lastFetchedDate') # Cache(cachedRepos, lastFetchedDate) )
           => \/ /\ LoadReturns
                 /\ \E f \in {file} \cup {pending[i].seen : i \in DOMAIN pending} :
                      /\ f.ok
                      /\ Cache(cachedRepos', lastFetchedDate') =
                         Cache(f.repos, f.lastFetchedDate)
              \/ /\ run.state = "fetching" /\ run'.state = "saving"
                 /\ Cache(cachedRepos', lastFetchedDate') = Cache(flat(results'), run.today)
        /\ \A i \in DOMAIN pending' :
             Loading(pending'[i])
             => \/ pending'[i].seen = file
                \/ \E j \in DOMAIN pending : pending[j] = pending'[i]
        /\ file' # file
           => file' = [ok |-> TRUE, repos |-> run.merged, lastFetchedDate |-> run.today] ]_vars

\* a socket connects during a run that follows a completed one: the store
\* holds the date of the earlier run and no records, and nothing is sent
C13_Witness ==
    /\ variant = "server"
    /\ inProgress = 1
    /\ lastUpdated # null
    /\ cachedRepos = <<>>
    /\ conn.connected
    /\ ~conn.cachedData

\* the repoUrl values of a list of records
Urls(repos) == {repos[i].repoUrl : i \in DOMAIN repos}

\* `merged` holds every repoUrl of `fetched` exactly once and no other
EachOnce(merged, fetched) ==
    /\ Urls(merged) = Urls(fetched)
    /\ \A i, j \in DOMAIN merged : merged[i].repoUrl = merged[j].repoUrl => i = j

\* the step in which the last category fetch of a run returns and the run
\* writes its merged set
RunMerges == run.state = "fetching" /\ run'.state \in {"completed", "saving"}

\* C14: the merged set a run writes to the cache and delivers on completion
\* holds every fetched repoUrl exactly once and no repoUrl that was not
\* fetched, also when categories repeat a repoUrl.
C14_MergedEachOnce ==
    [][ RunMerges
        => /\ EachOnce(cachedRepos', flat(results'))
           /\ variant = "server"
              => \A k \in DOMAIN events' :
                     events'[k].type = "reposUpdate"
                     => EachOnce(events'[k].repos, flat(results'))
           /\ variant = "route" => EachOnce(run'.merged, flat(results')) ]_vars

\* the step in which the last category fetch of a run of server.js returns
\* and the code after Promise.all does not throw
ServerCompletes ==
    /\ \E l \in Langs, rsp \in Responses : ServerFetchReturns(l, rsp, FALSE)
    /\ AllDone(results')

\* C15: a category whose fetch fails does not fail the run. The merged set
\* holds the repoUrl of every record of every category that succeeded, and a
\* run of server.js in which categories failed ends with the completed event
\* and without an error event, unless the aggregation step itself throws; a
\* run of route.ts in which categories failed and others returned records
\* answers with those records once the cache file is written.
C15_PartialFailureCompletes ==
    [][ /\ RunMerges
           => \A l \in Langs \ run'.lost :
                  Urls(results'[l].repos) \subseteq Urls(cachedRepos')
        /\ (ServerCompletes /\ run'.lost # {})
           => /\ run'.state = "completed"
              /\ events'[Len(events')].type = "completed"
              /\ \A k \in DOMAIN events' : events'[k].type # "error"
        /\ (RouteSaveReturns(TRUE) /\ run.lost # {} /\ run.merged # <<>>)
           => /\ run'.state = "completed"
              /\ \A a \in DOMAIN answers' : answers'[a].status = "ok" ]_vars

\* a run of server.js has completed although the fetch of one category
\* failed; the cache holds the records of the other
C15_Witness ==
    /\ variant = "server"
    /\ run.state = "completed"
    /\ run.lost = {"go"}
    /\ Len(results[""].repos) > 0
    /\ cachedRepos = results[""].repos
    /\ LastEvent.type = "completed"

\* the positions in the broadcasts of the current run of the events of one
\* type for one category
EventsOf(type, language) ==
    {k \in DOMAIN events : events[k].type = type /\ events[k].language = language}

\* C16: for each category whose fetch has failed during the run, exactly one
\* category-failed event (progress 'Failed to fetch <language>') has been
\* emitted for it and no category-succeeded event (languageData, progress
\* 'Successfully fetched <language>').
C16_FailedCategoryMarked ==
    variant = "server"
    => \A l \in run.lost :
           /\ Cardinality(EventsOf("progress:failure", l)) = 1
           /\ EventsOf("progress:success", l) = {}
           /\ EventsOf("languageData", l) = {}

\* C17: a run in which no category returns any record ends as a successful
\* run with the empty set: server.js emits the completed event and no error
\* event, route.ts answers the requests that await the run with success and
\* the empty set.
C17_EmptyRunSucceeds ==
    [][ /\ (ServerCompletes /\ flat(results') = <<>>)
           => /\ run'.state = "completed"
              /\ events'[Len(events')].type = "completed"
              /\ \A k \in DOMAIN events' : events'[k].type # "error"
        /\ (RouteSaveReturns(TRUE) /\ run.merged = <<>>)
           => /\ run'.state = "completed"
              /\ \A a \in DOMAIN answers' : answers'[a] = Answer("ok", <<>>) ]_vars

\* the status the claimed rule gives a request of server.js with this flag
StatusFor(forceRefresh) ==
    IF FreshCache /\ ~forceRefresh THEN "cached"
    ELSE IF inProgress > 0 THEN "in-progress"
    ELSE "started"

\* C18: every refresh request of server.js is answered exactly once, in the
\* step in which it arrives and so before any fetch of the run it starts has
\* returned: with cached when the cache is valid and the request is not
\* forced, otherwise with in-progress when a run is in flight, otherwise with
\* started; started is the answer of exactly the request that starts a run,
\* and no other step sends an answer.
C18_OneImmediateAnswer ==
    [][ variant = "server"
        => /\ \A f \in BOOLEAN :
                ServerRequest(f)
                => /\ answers' = <<Answer(StatusFor(f), <<>>)>>
                   /\ (StatusFor(f) = "started") <=> RunStarts
                   /\ RunStarts => results' = AllPending
           /\ ~(\E f \in BOOLEAN : ServerRequest(f))
              => (answers' = <<>> /\ ~RunStarts) ]_vars

\* a forced request has just started a run on the day of the latest cache
\* write: it was answered started and no fetch has returned
C18_Witness ==
    /\ variant = "server"
    /\ answers = <<Answer("started", <<>>)>>
    /\ run.forced
    /\ lastUpdated # null
    /\ DateOf(lastUpdated) = DateOf(now)
    /\ results = AllPending

\* the positions in the broadcasts of the current run of the events of one
\* of the given types
Positions(types) == {k \in DOMAIN events : events[k].type \in types}

CategoryEvents == {"languageData", "progress:success", "progress:failure"}
TerminalEvents == {"completed", "error"}

C20_ConnectGetsCachedOnly ==
    [][ Connect
        => /\ FreshCache
              => conn' = [connected |-> TRUE, cachedData |-> TRUE,
                          repos |-> cachedRepos, lastUpdated |-> lastUpdated]
           /\ inProgress > 0
              => conn' = [connected |-> TRUE, cachedData |-> FALSE,
                          repos |-> <<>>, lastUpdated |-> null]
           /\ UNCHANGED <<events, serverVars, run, results>> ]_vars

\* on the second day a socket has connected to the cache of a run of that
\* day and has been sent its records and date
C20_Witness ==
    /\ variant = "server"
    /\ FreshCache
    /\ DateOf(now) > 0
    /\ conn.cachedData
    /\ conn.repos = cachedRepos
    /\ conn.lastUpdated = lastUpdated

\* the step in which invocation i of the session server leaves its loop
SessionRunEnds(i) ==
    /\ i \in DOMAIN handlers
    /\ \E rsp \in SessionResponses, t \in BOOLEAN : SessionFetchReturns(i, rsp, t)
    /\ Len(handlers') < Len(handlers)

\* C21: in session mode every event of a request's run goes only to the
\* socket registered under the request's sessionId, and that socket is
\* closed when the run ends, on completion and on error alike.
C21_SessionChannelClosed ==
    [][ \A i \in 1..MaxReq :
          /\ (i \in DOMAIN handlers
              /\ \E rsp \in SessionResponses, t \in BOOLEAN : SessionFetchReturns(i, rsp, t))
             => /\ channels[handlers[i].socket].open
                   => channels[handlers[i].socket].sessionId = handlers[i].sessionId
                /\ \A k \in DOMAIN emitted' : emitted'[k].to = handlers[i].socket
          /\ SessionRunEnds(i) => ~channels'[handlers[i].socket].open ]_vars

\* C22: server.js clears the cache only in the step that starts a run: a
\* request answered cached or in-progress leaves cachedRepos, lastUpdated
\* and isCurrentlyFetching unchanged, and records disappear from the cache
\* only in a step that starts a run and leaves isCurrentlyFetching set.
C22_ClearedOnlyWhenRunStarts ==
    [][ variant = "server"
        => /\ \A f \in BOOLEAN :
                (ServerRequest(f) /\ answers'[1].status \in {"cached", "in-progress"})
                => UNCHANGED serverVars
           /\ (Len(cachedRepos) > 0 /\ cachedRepos' = <<>>)
              => (RunStarts /\ isCurrentlyFetching' /\ \E f \in BOOLEAN : ServerRequest(f))
      ]_vars

\* a request is answered in-progress while the run in flight has cleared a
\* cache that held records
C22_Witness ==
    /\ variant = "server"
    /\ answers # <<>> /\ answers[1].status = "in-progress"
    /\ isCurrentlyFetching /\ ~run.intact
    /\ cachedRepos = <<>> /\ lastUpdated # null

\* C23: when several categories return the same repoUrl, the record that the
\* merged set of server.js keeps is the one of the category whose fetch
\* returned first: in the step in which the last fetch returns, a repoUrl
\* that a category which returned earlier has delivered is kept with the
\* language of that category.
C23_FirstCompletedKept ==
    [][ \A l \in ServerLangs, rsp \in Responses :
          (ServerFetchReturns(l, rsp, FALSE) /\ AllDone(results'))
          => \A o \in Langs \ {l} : \A k \in DOMAIN cachedRepos' :
                 cachedRepos'[k].repoUrl \in Urls(results[o].repos)
                 => cachedRepos'[k].language = o ]_vars

\* the step in which a run completes
RunCompletes == run.state \in {"fetching", "saving"} /\ run'.state = "completed"

\* the set the completing run has merged: server.js merges in the step in
\* which it completes, route.ts before it writes the cache file
MergedSet == IF variant = "server" THEN uniqueRepos(flat(results')) ELSE run.merged

\* C24: when a run completes, the cache holds exactly the merged set of that
\* run, dated with the calendar date of the completion, the in-flight flag is
\* false, and the completion event that server.js broadcasts carries the
\* records and the date that the cache holds in the same step.
C24_CompletionWritesCache ==
    [][ RunCompletes
        => /\ cachedRepos' = MergedSet
           /\ ~isCurrentlyFetching' /\ ~isFetching'
           /\ IF variant = "server"
              THEN /\ lastUpdated' # null /\ DateOf(lastUpdated') = DateOf(now')
                   /\ \E k \in DOMAIN events' :
                        /\ events'[k].type = "reposUpdate"
                        /\ Cache(events'[k].repos, events'[k].lastUpdated)
                           = Cache(cachedRepos', lastUpdated')
                   /\ events'[Len(events')].type = "completed"
                   /\ events'[Len(events')].lastUpdated = lastUpdated'
              ELSE lastFetchedDate' = DateOf(now') ]_vars

\* C25: for every category of a run of server.js, a category-started event
\* (progress 'Fetching trending repositories for <language>') is emitted and
\* precedes the succeeded or failed event of that category.
C25_StartedBeforeOutcome ==
    variant = "server"
    => \A l \in Langs :
         /\ results[l].done /\ run.state # "none"
            => EventsOf("progress:fetching", l) # {}
         /\ \A k \in DOMAIN events :
              (events[k].type \in CategoryEvents /\ events[k].language = l)
              => \E j \in EventsOf("progress:fetching", l) : j < k

\* C26: a run of server.js fetches every category exactly once and emits one
\* outcome event for each: a category has one languageData event and one
\* success-or-failure event when its fetch has returned and none before.  The
\* cache stays as the run start left it while fetches are outstanding, and
\* the events of the completion and the terminal event exist only when every
\* fetch has returned, so no fetch is outstanding once the run has ended.
C26_FanOutJoin ==
    (variant = "server" /\ run.state # "none")
    => /\ \A l \in Langs :
            LET n == IF results[l].done THEN 1 ELSE 0 IN
            /\ Cardinality(EventsOf("languageData", l)) = n
            /\ Cardinality(EventsOf("progress:success", l)
                           \cup EventsOf("progress:failure", l)) = n
       /\ (\E l \in Langs : ~results[l].done)
          => /\ run.state = "fetching" /\ isCurrentlyFetching
             /\ cachedRepos = <<>>
             /\ Positions(TerminalEvents \cup {"reposUpdate"}) = {}
       /\ run.state \in {"completed", "failed"}
          => /\ \A l \in Langs : results[l].done
             /\ Positions(TerminalEvents) = {Len(events)}

\* a run has completed with records although the fetch of a category failed:
\* that category was not fetched again
C26_Witness ==
    /\ variant = "server"
    /\ run.state = "completed"
    /\ run.lost # {}
    /\ Len(cachedRepos) > 0
    /\ LastEvent.type = "completed"

\* the step in which the fetch of `language` settles with `response`
FetchReturns(language, response) ==
    ServerFetchReturns(language, response, FALSE) \/ RouteFetchReturns(language, response)

\* C27: fetchTrendingRepos never raises to its caller. When its request fails
\* it returns an empty sequence: the category settles with no records, the
\* results of the other categories of the run are untouched, their fetches
\* can still return, and the run does not fail.
C27_FetcherNeverRaises ==
    [][ \A l \in Langs, rsp \in Responses :
          (~rsp.ok /\ FetchReturns(l, rsp))
          => /\ results'[l] = Settled(<<>>)
             /\ \A o \in Langs \ {l} : results'[o] = results[o]
             /\ run'.state # "failed"
             /\ l \in run'.lost ]_vars

\* the fetch of one category of a run of route.ts has failed, the fetch of
\* another has returned records, and the chain has gone on to write them
C27_Witness ==
    /\ variant = "route"
    /\ run.state = "saving"
    /\ run.lost # {}
    /\ \E l \in Langs \ run.lost : results[l].done /\ Len(results[l].repos) > 0

\* C28: an I/O error on the cache file never makes a request of route.ts
\* fail. A request whose read of the file fails is not answered with an
\* error in that step but goes on to the cache check and a run, and when the
\* write of the file fails, every request that awaits the run is still
\* answered with the records the run has merged.
C28_CacheIoErrorHarmless ==
    [][ /\ \A i \in 1..MaxReq :
              RouteLoadReturns(i, FALSE)
              => \A k \in DOMAIN answers' : answers'[k].status # "error"
        /\ (RouteSaveReturns(FALSE) /\ Len(run.merged) > 0)
           => \A k \in DOMAIN answers' : answers'[k] = Answer("ok", run.merged)
      ]_vars

\* the rows of a page that carry the href of a repository, in page order
WellFormed(rows) == SelectSeq(rows, LAMBDA r : r \in Paths)

\* C29: a row that cannot be parsed is omitted and all other rows of the page
\* are returned: what fetchTrendingRepos extracts from a page is one record
\* for each row that carries a repository href, in page order, and no other.
C29_BadItemOmitted ==
    repositories.done
    => LET good == WellFormed(html) IN
       /\ Len(repositories.repos) = Len(good)
       /\ \A i \in DOMAIN good : repositories.repos[i].repoUrl = repoUrlOf(good[i])

\* the in-flight flag of the deployment shape
inFlight == IF variant = "route" THEN isFetching ELSE isCurrentlyFetching

\* the step in which the fetch of a category settles while others of the
\* run are outstanding
WorkerReturns ==
    /\ \E l \in Langs, rsp \in Responses : FetchReturns(l, rsp)
    /\ \E l \in Langs : ~results'[l].done

\* C30: after every step the in-flight flag is true exactly when a run has
\* started and not finished. It changes only in the step that starts a run, where it is set,
\* and in the step in which the run ends after its join, where it is
\* cleared, and a category fetch that returns while others are outstanding
\* changes neither the flag nor any other variable of the module.
C30_FlagBracketsRun ==
    [][ /\ inFlight' <=> inProgress' > 0
        /\ inFlight' # inFlight
           => \/ RunStarts /\ inFlight'
              \/ inProgress' = inProgress - 1 /\ ~inFlight' /\ AllDone(results')
        /\ WorkerReturns => UNCHANGED <<serverVars, routeVars>> ]_vars

\* during a run of route.ts one category fetch has returned records, the
\* other is outstanding, and the flag is set
C30_Witness ==
    /\ variant = "route"
    /\ isFetching /\ run.state = "fetching"
    /\ \E l \in Langs : results[l].done /\ Len(results[l].repos) > 0
    /\ \E l \in Langs : ~results[l].done

\* C31: a forced request that arrives while a run is in flight starts no
\* second run and leaves the cache, the flag and the run as they are:
\* server.js answers it in-progress, route.ts suspends it on the fetchPromise
\* of the run in flight.
C31_ForcedDuringRunJoins ==
    [][ (Request(TRUE) /\ inProgress > 0)
        => /\ ~RunStarts
           /\ UNCHANGED <<serverVars, routeVars, results, run>>
           /\ IF variant = "server"
              THEN answers' = <<Answer("in-progress", <<>>)>>
              ELSE /\ answers' = <<>>
                   /\ pending' = Append(pending, Suspended("wait", getTodayDateString))
      ]_vars

\* the first run of route.ts, started by a request that was not forced, is in
\* flight and a forced request is suspended on its fetchPromise
C31_Witness ==
    /\ variant = "route"
    /\ inProgress = 1 /\ run.state = "fetching" /\ ~run.forced
    /\ anyForce
    /\ lastFetchedDate = null
    /\ \E k \in DOMAIN pending : pending[k].pc = "wait"

\* C32: a connecting socket is sent cachedData only when the cached set is
\* valid today: the set it is sent carries the date of the current day.
C32_ConnectNeverStale ==
    conn.cachedData => (conn.lastUpdated # null /\ DateOf(conn.lastUpdated) = DateOf(now))

\* C33: in the step in which a run completes with a merged set that is not
\* empty, the cache becomes valid for the day of the completion, also when
\* the run started on the day before; and a request that is not forced and
\* meets a valid cache is answered from it and starts no run.
C33_ValidAfterCompletion ==
    [][ /\ (RunCompletes /\ Len(MergedSet) > 0) => FreshCache'
        /\ (Request(FALSE) /\ FreshCache) => (~RunStarts /\ ~NotFromCache) ]_vars

\* C34: once a run of route.ts has completed and written the in-memory
\* cache, a request that resumes from its read of the cache file does not
\* replace the cached records or their date with older ones: it leaves them
\* as they are, or equal to the record that the run has persisted.
C34_NoStaleOverwrite ==
    [][ (LoadReturns /\ run.state = "completed")
        => \/ UNCHANGED <<cachedRepos, lastFetchedDate>>
           \/ Cache(cachedRepos', lastFetchedDate')
              = Cache(file.repos, file.lastFetchedDate) ]_vars

\* C35: in the session server a socket registered under a sessionId stays
\* registered until that socket disconnects: no step in which the registered
\* socket stays connected leaves its sessionId without a registration, also
\* when another socket with the same sessionId disconnects.
C35_RegistrationSurvives ==
    [][ \A t \in Tokens :
          (sockets[t] # NoSocket /\ channels'[sockets[t]].open)
          => sockets'[t] # NoSocket ]_vars

\* C36: every refresh the page starts, on mount or by Force Fetch, ends its
\* loading state: whenever loading is set, a cachedData, completed or error
\* event later resets it.
C36_LoadingEnds == loading ~> ~loading

\* C37: a GET sent by the Force Fetch button is handled by server.js as a
\* forced refresh: when no run is in flight it starts a run, also when the
\* cache is valid today.
C37_ForceFetchForces ==
    [][ \A i \in 1..MaxReq :
          (/\ i \in DOMAIN requests
           /\ requests[i].forceFetch = "true"
           /\ PageRequestArrives(i)
           /\ inProgress = 0)
          => RunStarts ]_vars

\* C38: fetchWithRetry terminates. It ends having sent at most retries + 1
\* requests; it returns the data of the request that succeeded, after which
\* no request is sent; and it raises the error only when retries + 1
\* requests have been sent and have failed.
C38_RetryTerminates ==
    <>[]( /\ retryCall.pc \in {"returned", "threw"}
          /\ retryCall.sent <= retryCall.retries + 1
          /\ retryCall.pc = "returned"
             => retryCall.result = "data" /\ retryCall.sent = retryCall.i + 1
          /\ retryCall.pc = "threw"
             => retryCall.result = "error" /\ retryCall.sent = retryCall.retries + 1 )

\* a call has returned the data of a request that succeeded after an earlier
\* one had failed, with retries left
C38_Witness ==
    /\ retryCall.pc = "returned"
    /\ retryCall.result = "data"
    /\ retryCall.i >= 1
    /\ retryCall.i < retryCall.retries

====
